---- MODULE Spec2Model ----
(***************************************************************************)
(* Model of the decision rails of the repository: the apophatic guard      *)
(* (core/logic/apophatic_guard.py), the lexicographic solver and the       *)
(* orchestrator (core/planner/decision_core.py), the per-candidate scorer  *)
(* (core/metrics/candidate_scorer.py) and the shadow twin                  *)
(* (apps/contemplator/shadow_twin.py).                                     *)
(*                                                                         *)
(* Numbers are scaled integers: costs (E) in thousandths, coherence (G) in *)
(* ten-thousandths, kernel weights (K) in quarters; coverage, risk and the *)
(* penalties of a candidate in hundredths.                                 *)
(* Python's None is the empty tuple, a present value x is <<x>>.           *)
(* A Python dict is the sequence of its items in insertion order; an item  *)
(* is [k, isDict, atom, sub]: a value that is itself a dict has isDict and *)
(* its items in sub, any other value is the string atom.                   *)
(***************************************************************************)
EXTENDS Integers, Sequences, FiniteSets, TLC

VARIABLES
    pc,           \* the call that produced ret: "init" before any call
    ret,          \* what the last call returned (or raised)
    state,        \* decision_core.State passed to decide / minimal_clean_move
    candidates,   \* the List[Action] passed to decide / minimal_clean_move
    cfg,          \* thresholds read from docs/vows.yaml when the module loads
    now,          \* time.time()
    g_context,    \* apophatic_guard.admissible: argument context
    g_params,     \* apophatic_guard.admissible: argument params
    draft0,       \* ShadowTwin: the AdviceDraft as first given
    draft,        \* ShadowTwin: the AdviceDraft after the inversions so far
    primary_awp,  \* ShadowTwin: what pca.build returns for the draft
    counter_awp,  \* ShadowTwin: what pca.build returns for the counter-draft
    inversions,   \* ShadowTwin: how many times _invert was applied to draft
    args,         \* the arguments of a call that takes none of the above
    pgl_files,    \* pgl_loader: the two YAML files as they are on disk
    PGL_CONFIG,   \* pgl_loader: the module's singleton _PGL_CONFIG
    ledger_up,    \* whether the ledger write of attach_pca succeeds
    ticket,       \* consent_checker: a ConsentTicket object
    ticket0,      \* consent_checker: the ticket as it was constructed
    uses,         \* consent_checker: how many use() calls returned True
    threads,      \* concurrent callers: where each thread is in its call, its
                  \* local and what its call returned
    loads         \* pgl_loader: how many PGLConfig objects were constructed

vars == <<pc, ret, state, candidates, cfg, now, g_context, g_params,
          draft0, draft, primary_awp, counter_awp, inversions, args,
          pgl_files, PGL_CONFIG, ledger_up, ticket, ticket0, uses, threads,
          loads>>

None == <<>>
Some(x) == <<x>>
Val(o) == o[1]

\* d.get(k): the item of key k of a dict, None when absent
DictGet(d, k) ==
    LET hits == SelectSeq(d, LAMBDA item : item.k = k)
    IN  IF hits = <<>> THEN None ELSE Some(hits[Len(hits)])

GetOr(o, dflt) == IF o = None THEN dflt ELSE Val(o)

(***************************************************************************)
(* Bounds of the model.                                                    *)
(***************************************************************************)
MaxDepth == 2        \* nesting depth of the dicts given to the guard
MaxTickets == 2      \* length of state.consent_tickets
MaxNow == 2          \* the clock runs over 1..MaxNow
MaxCandidates == 2   \* length of the candidate list given to decide
MaxSolverCandidates == 3   \* length of the candidate list given to the solver
MaxRisk == 2         \* AdviceWithProof.risk runs over 0..MaxRisk
MaxInversions == 2   \* how many times a draft is fed back to _invert
MaxRules == 2        \* length of the transition table of the PGL configuration
MaxInvocations == 2  \* max_invocations and invocations of a ticket run over 0..MaxInvocations
MaxThreads == 3      \* how many threads call get_pgl_config, or use(), concurrently

(***************************************************************************)
(* core/logic/apophatic_guard.py                                           *)
(***************************************************************************)
FORBIDDEN_KEYS ==
    {"ground_is", "ultimate_name", "final_owner", "sovereign_claim",
     "ground_truth", "completion"}

CONSTRAINT_ONLY ==
    {"no_image", "no_totalization", "no_equivalence", "no_exchange",
     "no_possession"}

\* result[key] = v of the Python code
DictPut(result, key, v) == (key :> v) @@ result

RECURSIVE flatten_dict(_, _, _)
flatten_dict(d, prefix, result) ==
    IF d = <<>> THEN result
    ELSE LET item == Head(d)
             key == IF prefix # "" THEN prefix \o "." \o item.k ELSE item.k
             r1 == IF item.isDict
                   THEN flatten_dict(item.sub, key, result)
                   ELSE DictPut(result, key, item.atom)
         IN flatten_dict(Tail(d), prefix, r1)

\* {**all_context, **all_params}: params win on a shared key
Combined(ctx, prm) ==
    flatten_dict(prm, "", <<>>) @@ flatten_dict(ctx, "", <<>>)

admissible(ctx, prm) ==
    LET combined == Combined(ctx, prm) IN
    /\ \A k \in FORBIDDEN_KEYS : k \notin DOMAIN combined
    /\ \A k \in CONSTRAINT_ONLY :
          k \in DOMAIN combined => combined[k] \in {"True", "enforced"}

(***************************************************************************)
(* core/planner/decision_core.py                                           *)
(***************************************************************************)
\* ConsentTicket.is_valid: time.time() <= issued_at + ttl_seconds
is_valid(t, tnow) == tnow <= t.issued_at + t.ttl_seconds

\* all(t.is_valid() for t in state.consent_tickets)
check_consent(st, tnow) ==
    [ok |-> \A i \in 1..Len(st.consent_tickets) :
                is_valid(st.consent_tickets[i], tnow),
     tickets |-> st.consent_tickets]

\* admissible(state.context, action.params): action.params is evaluated
\* first, and raises AttributeError when action is None
check_apophatic(st, action) ==
    IF action = None
    THEN [raised |-> TRUE, ok |-> FALSE]
    ELSE [raised |-> FALSE, ok |-> admissible(st.context, Val(action).params)]

\* The seams to the cost / coherence / kernel collaborators: each returns a
\* number for (state, action); the number is the one the candidate carries.
energy_E(st, a) == a.E
grace_G(st, a) == a.G
kernel_weight(st, a) == a.K

\* Precompute (a, EK, E, G) for all candidates; a is the position of the
\* Action object in the list.
ScoreAll(st, cands) ==
    [i \in 1..Len(cands) |->
        [a  |-> i,
         EK |-> energy_E(st, cands[i]) * kernel_weight(st, cands[i]),
         E  |-> energy_E(st, cands[i]),
         G  |-> grace_G(st, cands[i])]]

\* A slip in the tie-break: the lower G wins a tie on EK.
ImprovesLowerG(t, best) ==
    \/ best = None
    \/ t.EK < Val(best).EK
    \/ /\ t.EK = Val(best).EK
       /\ \/ t.G < Val(best).G
          \/ (t.G = Val(best).G /\ t.E < Val(best).E)

\* The condition of the selection loop; best = None stands for the initial
\* best_EK = inf, which every EK is below.
Improves(t, best) ==
    \/ best = None
    \/ t.EK < Val(best).EK
    \/ /\ t.EK = Val(best).EK
       /\ \/ t.G > Val(best).G
          \/ (t.G = Val(best).G /\ t.E < Val(best).E)

RECURSIVE SelectBest(_, _, _)
SelectBest(scored, i, best) ==
    IF i > Len(scored) THEN best
    ELSE SelectBest(scored, i + 1,
                    IF Improves(scored[i], best) THEN Some(scored[i]) ELSE best)

\* viable.sort(key=lambda t: (-t[3], t[2])): a stable sort, G descending
\* then E ascending.
KeyLess(x, y) == x.G > y.G \/ (x.G = y.G /\ x.E < y.E)

RECURSIVE InsertSorted(_, _)
InsertSorted(t, s) ==
    IF s = <<>> THEN <<t>>
    ELSE IF KeyLess(t, Head(s)) THEN <<t>> \o s
    ELSE <<Head(s)>> \o InsertSorted(t, Tail(s))

RECURSIVE SortViable(_, _, _)
SortViable(v, i, acc) ==
    IF i > Len(v) THEN acc ELSE SortViable(v, i + 1, InsertSorted(v[i], acc))

NoMove == [action |-> None, delta_E |-> None, G |-> None]
Move(t) == [action |-> Some(t.a), delta_E |-> Some(t.E), G |-> Some(t.G)]

\* A slip in the retry: every scored candidate counts as viable.
IsViableAll(t, c) == TRUE

IsViable(t, c) == t.E < c.min_delta_E

minimal_clean_move(st, cands, c) ==
    LET scored == ScoreAll(st, cands)
        best == SelectBest(scored, 1, None)
    IN  IF best = None THEN NoMove
        ELSE IF Val(best).E >= c.min_delta_E THEN NoMove
        ELSE IF Val(best).G < c.min_grace
        THEN LET viable == SelectSeq(scored, LAMBDA t : IsViable(t, c))
                 sorted == SortViable(viable, 1, <<>>)
             IN  IF viable # <<>> /\ sorted[1].G >= c.min_grace
                 THEN Move(sorted[1])
                 ELSE NoMove
        ELSE Move(Val(best))

\* A slip in the gate: a dialetheic truth value is refused.
pgl_decide_DialetheiaRefused(st, action, proofs, truth) ==
    IF action = None
    THEN LET consent_ok == GetOr(proofs.consent.ok, TRUE)
             apoph_ok == GetOr(proofs.logic.apophatic_ok, TRUE)
         IN  IF ~consent_ok \/ ~apoph_ok THEN "Refuse" ELSE "Stand"
    ELSE IF truth \in {"T"} THEN "Answer"
    ELSE IF truth = "N" THEN "Stand"
    ELSE "Refuse"

\* decision_core.pgl_decide; proofs.consent.get("ok", True) and
\* proofs.logic.get("apophatic_ok", True) read an absent entry as True
pgl_decide(st, action, proofs, truth) ==
    IF action = None
    THEN LET consent_ok == GetOr(proofs.consent.ok, TRUE)
             apoph_ok == GetOr(proofs.logic.apophatic_ok, TRUE)
         IN  IF ~consent_ok \/ ~apoph_ok THEN "Refuse" ELSE "Stand"
    ELSE IF truth \in {"T", "B"} THEN "Answer"
    ELSE IF truth = "N" THEN "Stand"
    ELSE "Refuse"

Raised(e) == [raised |-> Some(e), result |-> None]
Returned(r) == [raised |-> None, result |-> Some(r)]

\* attach_pca: store(answer, proofs) returns the ledger id, or raises when
\* the ledger write fails; no caller catches it
attach_pca(answer, proofs, up) ==
    IF up THEN Returned("ledger") ELSE Raised("LedgerError")

\* decide, from the two rails up to the DecisionResult.  price_externalities,
\* antimemory_countercontext and attach_pca are collaborators: what they
\* return is recorded as a tag.
decide(st, cands, c, tnow, up) ==
    LET consent == check_consent(st, tnow)
        apoph == check_apophatic(st, None)
    IN  IF apoph.raised THEN Raised("AttributeError")
        ELSE IF ~consent.ok \/ ~apoph.ok
        THEN Returned(
               [decision |-> "Refuse", chosen_action |-> None,
                delta_E |-> None, grace |-> None, truth |-> None,
                proofs |-> [logic |-> [truth |-> None, apophatic_ok |-> Some(apoph.ok)],
                            ethics |-> "none",
                            consent |-> [ok |-> Some(consent.ok), tickets |-> consent.tickets],
                            phenomenology |-> "none",
                            repair_horizon |-> None],
                ledger_id |-> None])
        ELSE
          LET ethics_info == IF st.will_operator = "EXP" \/ st.stage \in {"S11"}
                             THEN "priced" ELSE "none"
              move == minimal_clean_move(st, cands, c)
              truth == IF move.action # None
                       THEN cands[Val(move.action)].predicted_truth ELSE "N"
              repair_horizon == IF st.paradox_nearby
                                THEN Some(tnow + c.max_days * 86400) ELSE None
              proofs == [logic |-> [truth |-> Some(truth), apophatic_ok |-> Some(apoph.ok)],
                         ethics |-> ethics_info,
                         consent |-> [ok |-> Some(consent.ok), tickets |-> consent.tickets],
                         phenomenology |-> "none",
                         repair_horizon |-> repair_horizon]
              decision == pgl_decide(st, move.action, proofs, truth)
              ledger == IF c.ledger_required
                        THEN attach_pca(decision, proofs, up)
                        ELSE Returned("none")
          IN  IF ledger.raised # None THEN ledger
              ELSE Returned(
                [decision |-> decision, chosen_action |-> move.action,
                 delta_E |-> move.delta_E, grace |-> move.G,
                 truth |-> Some(truth), proofs |-> proofs,
                 ledger_id |-> IF c.ledger_required THEN ledger.result ELSE None])

(***************************************************************************)
(* core/logic/consent_checker.py.  Times are in seconds.  A ticket given   *)
(* as a dict is the record of its entries, each absent (None) or present;  *)
(* isTicket tells a ConsentTicket object in the consent_tickets list from  *)
(* a dict.                                                                 *)
(***************************************************************************)
scope_levels ==
    ("self" :> 0) @@ ("dyad" :> 1) @@ ("group" :> 2) @@ ("org" :> 3)
    @@ ("public" :> 4)

\* A slip in the comparison: a ticket may be used for a broader scope.
can_escalate_Upwards(from_scope, to_scope) ==
    IF from_scope \notin DOMAIN scope_levels \/ to_scope \notin DOMAIN scope_levels
    THEN FALSE
    ELSE scope_levels[from_scope] <= scope_levels[to_scope]

\* ConsentScope.can_escalate
can_escalate(from_scope, to_scope) ==
    IF from_scope \notin DOMAIN scope_levels \/ to_scope \notin DOMAIN scope_levels
    THEN FALSE
    ELSE scope_levels[from_scope] >= scope_levels[to_scope]

\* A slip in the check: the invocation count is not looked at.
ConsentTicket_is_valid_TtlOnly(t, tnow) ==
    ~(tnow > t.issued_at + t.ttl_seconds)

\* consent_checker.ConsentTicket.is_valid at time tnow
ConsentTicket_is_valid(t, tnow) ==
    IF tnow > t.issued_at + t.ttl_seconds THEN FALSE
    ELSE IF t.invocations >= t.max_invocations THEN FALSE
    ELSE TRUE

\* ConsentTicket.use: what it returns and the ticket after the call
ConsentTicket_use(t, tnow) ==
    IF ~ConsentTicket_is_valid(t, tnow)
    THEN [ok |-> FALSE, ticket |-> t]
    ELSE [ok |-> TRUE, ticket |-> [t EXCEPT !.invocations = t.invocations + 1]]

\* the ConsentTicket made of a dict: c.get(k, default) for each field
TicketOf(d, default_scope, tnow) ==
    [scope |-> GetOr(d.scope, default_scope),
     issued_at |-> GetOr(d.issued_at, tnow - 60),
     ttl_seconds |-> GetOr(d.ttl_seconds, 3600),
     max_invocations |-> GetOr(d.max_invocations, 1),
     invocations |-> GetOr(d.invocations, 0)]

\* ConsentChecker.extract_from_context: the ticket of context["consent"]
\* when it has a scope and a true valid entry, then those of
\* context["consent_tickets"]
extract_from_context(context, tnow) ==
    LET c == context.consent
        first == IF c # None /\ Val(c).scope # None /\ Val(c).valid # None
                    /\ Val(Val(c).valid) \notin {"False", ""}
                 THEN <<TicketOf(Val(c), "", tnow)>>
                 ELSE <<>>
        list == GetOr(context.consent_tickets, <<>>)
    IN  first \o [i \in 1..Len(list) |->
                     IF list[i].isTicket
                     THEN TicketOf(list[i], "", tnow)
                     ELSE TicketOf(list[i], "self", tnow)]

\* ConsentChecker.check_context
check_context(context, target_scope, tnow) ==
    LET tickets == extract_from_context(context, tnow)
    IN  IF tickets = <<>> THEN FALSE
        ELSE IF target_scope = None
        THEN \E i \in 1..Len(tickets) : ConsentTicket_is_valid(tickets[i], tnow)
        ELSE \E i \in 1..Len(tickets) :
                /\ ConsentTicket_is_valid(tickets[i], tnow)
                /\ can_escalate(tickets[i].scope, Val(target_scope))

(***************************************************************************)
(* core/planner/pgl_loader.py.  A parsed YAML file is the record of the    *)
(* entries the loader reads, each absent (None) or present.  A transition  *)
(* is [when, decision, requirements]: when is the rule's `when` dict as a  *)
(* sequence of [k, v], decision is then.decision, requirements the set of  *)
(* the names in then.requirements.  YAML booleans are the atoms "True"     *)
(* and "False".                                                            *)
(***************************************************************************)
\* {} as the content of core/logic/pgl_coalgebra.yaml
EmptyPgl == [transitions |-> None, require_reversible_micro_move |-> None]

\* {} as the content of core/planner/paradox_gate.yaml
EmptyGate ==
    [normal |-> None, paradox_near |-> None, apophatic_margin |-> None,
     min_days |-> None, max_days |-> None]

\* _load_yaml: the parsed file; the except branch returns {} when the file
\* cannot be opened or parsed
load_yaml(file, empty) == IF file.status = "ok" THEN Val(file.data) ELSE empty

\* PGLConfig.__init__
PGLConfig(files) ==
    [pgl_config |-> load_yaml(files.pgl, EmptyPgl),
     paradox_gate_config |-> load_yaml(files.gate, EmptyGate)]

\* get_pgl_config: the singleton, constructed when it is None
get_pgl_config(singleton, files) ==
    IF singleton = None THEN PGLConfig(files) ELSE Val(singleton)

\* the PGLConfig object of the id-th call of the constructor: two objects
\* built from the same files are equal in content and still two objects
Instance(id, config) ==
    [id |-> id, pgl_config |-> config.pgl_config,
     paradox_gate_config |-> config.paradox_gate_config]

\* in ten-thousandths
get_grace_floor(config, paradox_nearby, apophatic_margin) ==
    LET floors == config.paradox_gate_config
    IN  IF apophatic_margin THEN GetOr(floors.apophatic_margin, 6200)
        ELSE IF paradox_nearby THEN GetOr(floors.paradox_near, 6000)
        ELSE GetOr(floors.normal, 5500)

get_repair_horizon_days(config) ==
    <<GetOr(config.paradox_gate_config.min_days, 1),
      GetOr(config.paradox_gate_config.max_days, 14)>>

requires_micro_move(config, paradox_nearby) ==
    IF ~paradox_nearby THEN FALSE
    ELSE GetOr(config.pgl_config.require_reversible_micro_move, TRUE)

get_transitions(config) == GetOr(config.pgl_config.transitions, <<>>)

BoolAtom(b) == IF b THEN "True" ELSE "False"

\* bool(v) of a dict item
Truthy(item) ==
    IF item.isDict THEN item.sub # <<>> ELSE item.atom \notin {"False", ""}

\* getattr(state, "delta_E", 0) and getattr(state, "grace", 0): a
\* decision_core.State has neither attribute
state_delta_E(st) == 0
state_grace(st) == 0

\* hasattr(proofs, "repair_horizon"): a field of every ProofBundle
has_repair_horizon(proofs) == TRUE

\* the flags a rule's `when` is compared with, by key
Flags(config, st, action, proofs, truth) ==
    LET paradox_near == st.paradox_nearby
        grace_floor == get_grace_floor(config, paradox_near, FALSE)
    IN  [truth_val |-> truth,
         consent_clean |-> BoolAtom(GetOr(proofs.consent.ok, FALSE)),
         apophatic_ok |-> BoolAtom(GetOr(proofs.logic.apophatic_ok, FALSE)),
         delta_E_ok |-> BoolAtom(action # None /\ state_delta_E(st) < 0),
         grace_ok |-> BoolAtom(action # None /\ state_grace(st) >= grace_floor),
         paradox_near |-> BoolAtom(paradox_near)]

\* A slip in the scan: the reversible_micro_move requirement always counts
\* as met.
micro_move_ok_Always(config, st, action) == TRUE

\* not requires_micro or (action is not None and
\*     action.params.get("reversible_micro_move", False))
micro_move_ok(config, st, action) ==
    \/ ~requires_micro_move(config, st.paradox_nearby)
    \/ /\ action # None
       /\ LET v == DictGet(Val(action).params, "reversible_micro_move")
          IN  v # None /\ Truthy(Val(v))

\* the loop over when.items(): a key that is no flag is passed over
Matches(when, flags) ==
    \A i \in 1..Len(when) :
        when[i].k \in DOMAIN flags => flags[when[i].k] = when[i].v

\* the loop over the transitions, from rule i on
RECURSIVE ScanTransitions(_, _, _, _, _)
ScanTransitions(transitions, i, flags, mm_ok, proofs) ==
    IF i > Len(transitions) THEN "Stand"
    ELSE LET t == transitions[i]
         IN  IF /\ Matches(t.when, flags)
                /\ ~("reversible_micro_move" \in t.requirements /\ ~mm_ok)
                /\ ~("repair_horizon" \in t.requirements /\ ~has_repair_horizon(proofs))
                /\ t.decision # None
             THEN Val(t.decision)
             ELSE ScanTransitions(transitions, i + 1, flags, mm_ok, proofs)

\* pgl_loader.pgl_decide, given the configuration get_pgl_config() returns
pgl_loader_pgl_decide(config, st, action, proofs, truth) ==
    ScanTransitions(get_transitions(config), 1,
                    Flags(config, st, action, proofs, truth),
                    micro_move_ok(config, st, action), proofs)

(***************************************************************************)
(* core/metrics/candidate_scorer.py: energy and grace of a candidate.      *)
(* coverage, risk and the penalties are in hundredths, the energy returned *)
(* is in thousandths and grace in ten-thousandths (exact for the inputs    *)
(* drawn here).  An absent params key is None.                             *)
(***************************************************************************)
SCOPES == {"self", "dyad", "group", "org", "public"}

\* _consent_check: state.context["consent"] has valid is True and a known scope
scorer_consent_check(st) ==
    LET c == DictGet(st.context, "consent")
        sub == IF c # None /\ Val(c).isDict THEN Val(c).sub ELSE <<>>
        valid == DictGet(sub, "valid")
        scope == DictGet(sub, "scope")
    IN  /\ valid # None /\ ~Val(valid).isDict /\ Val(valid).atom = "True"
        /\ scope # None /\ ~Val(scope).isDict /\ Val(scope).atom \in SCOPES

SCORER_FORBID_KEYS == {"ground_is", "ultimate_name", "final_owner", "sovereign_claim"}
SCORER_CONSTRAINT_ONLY == {"no_image", "no_totalization", "no_equivalence", "no_exchange"}

\* _apophatic_check: top-level keys of action.params only
scorer_apophatic_check(a) ==
    /\ \A i \in 1..Len(a.params) : a.params[i].k \notin SCORER_FORBID_KEYS
    /\ \A k \in SCORER_CONSTRAINT_ONLY :
          LET v == DictGet(a.params, k)
          IN  v # None => (~Val(v).isDict /\ Val(v).atom \in {"True", "enforced"})

Min(x, y) == IF x < y THEN x ELSE y
Max(x, y) == IF x > y THEN x ELSE y

\* energy(state, action), in thousandths
energy(st, a) ==
    LET consent_ok == scorer_consent_check(st)
        apoph_ok == scorer_apophatic_check(a)
        ext_coverage == GetOr(a.coverage, 0)
        ext_ok == ~(ext_coverage < 50)
        base_cost == 100 + (IF ~consent_ok THEN 350 ELSE 0)
                         + (IF ~apoph_ok THEN 250 ELSE 0)
                         + (IF ~ext_ok THEN 200 ELSE 0)
        risk == IF a.externality_priced
                THEN Min(80, GetOr(a.risk, 10) + ((100 - GetOr(a.coverage, 0)) * 2) \div 10)
                ELSE GetOr(a.risk, 10)
        harms_penalty == GetOr(a.energy_penalty, 0)
        delta_e == base_cost + 3 * risk + 4 * harms_penalty
    IN  -delta_e

\* blake(obj): the BLAKE2b digest of json.dumps(obj, sort_keys=True).  The
\* digest is taken to be free of collisions: a token stands for the object
\* that was serialised, its keys in no order.
blake(obj) == <<"blake2b", obj>>

\* the list `proofs` that energy constructs; the absent consent_tickets
\* entry (None) stands for the default []
energy_proofs(st, a) ==
    LET consent_ok == scorer_consent_check(st)
        apoph_ok == scorer_apophatic_check(a)
        ext_coverage == GetOr(a.coverage, 0)
        ext_ok == ~(ext_coverage < 50)
    IN  <<[name |-> "consent", ok |-> consent_ok,
           details |-> [tickets |-> DictGet(st.context, "consent_tickets")],
           token |-> blake([consent |-> consent_ok])],
          [name |-> "apophatic", ok |-> apoph_ok,
           details |-> [params |-> a.params],
           token |-> blake([apophatic |-> apoph_ok])],
          [name |-> "externalities", ok |-> ext_ok,
           details |-> [coverage |-> ext_coverage],
           token |-> blake([externalities |-> ext_ok])]>>

\* grace(state, action, weights), in ten-thousandths; w is the weights map
grace(st, a, w) ==
    LET coverage == GetOr(a.coverage, 0)
        coverage_target == GetOr(st.coverage_target, 95)
        cov_term == IF coverage_target > 50
                    THEN Min(100, Max(0, ((coverage - 50) * 100) \div (coverage_target - 50)))
                    ELSE coverage
        has_rollback == a.rollback_recipe
        risk == GetOr(a.risk, 50)
        coherence == Max(0, 100 - risk)
        dignity_penalty == GetOr(a.grace_penalty, 0)
        repair_bonus == IF a.repair_plan THEN 800 ELSE 0
    IN  Max(0, Min(10000,
            w.coverage * cov_term + w.coherence * coherence
            + w.rollback * (IF has_rollback THEN 100 ELSE 0)
            - w.dignity * dignity_penalty + repair_bonus))

DEFAULT_GRACE_WEIGHTS == [coverage |-> 55, coherence |-> 25, rollback |-> 10, dignity |-> 25]

(***************************************************************************)
(* core/proofs/proof_carrying_advice.py.  What the pricer, the harms       *)
(* ledger and the anamnesis engine return is given with the call: coverage *)
(* and the penalties hp in hundredths, rri in hundredths.                  *)
(***************************************************************************)
FORBID_KEYS == {"ground_is", "ultimate_name", "final_owner", "sovereign_claim"}
PCA_CONSTRAINT_ONLY == {"no_image", "no_totalization", "no_equivalence", "no_exchange"}

\* apophatic_ok(params): (ok, reasons) from the top-level keys of params; the
\* reasons are kept as a set
apophatic_ok(params) ==
    LET forbidden == {"forbidden:" \o params[i].k :
                         i \in {j \in 1..Len(params) : params[j].k \in FORBID_KEYS}}
        violated == {"constraint_only_violation:" \o k :
                        k \in {c \in PCA_CONSTRAINT_ONLY :
                                 LET v == DictGet(params, c)
                                 IN  v # None /\ (Val(v).isDict
                                        \/ Val(v).atom \notin {"True", "enforced"})}}
        reasons == forbidden \cup violated
    IN  [ok |-> reasons = {}, reasons |-> reasons]

\* consent_ok(ctx): ctx["consent"] has valid is True and a known scope
consent_ok(ctx) ==
    LET c == DictGet(ctx, "consent")
        sub == IF c # None /\ Val(c).isDict THEN Val(c).sub ELSE <<>>
        valid == DictGet(sub, "valid")
        scope == DictGet(sub, "scope")
    IN  IF /\ valid # None /\ ~Val(valid).isDict /\ Val(valid).atom = "True"
           /\ scope # None /\ ~Val(scope).isDict /\ Val(scope).atom \in SCOPES
        THEN [ok |-> TRUE, msg |-> "consent:validated", scope |-> scope]
        ELSE [ok |-> FALSE, msg |-> "consent:missing_or_invalid", scope |-> scope]

\* ProofCarryingAdvice._mk_proof
mk_proof(name, ok, details) ==
    [name |-> name, ok |-> ok, details |-> details,
     token |-> blake([name |-> name, ok |-> ok, details |-> details])]

\* ProofCarryingAdvice.build: the list of the five proofs
build_proofs(d, collab, coverage_threshold) ==
    LET c == consent_ok(d.context)
        a == apophatic_ok(d.params)
        ext_ok == collab.coverage >= coverage_threshold /\ collab.rollback_ready
        harms_ok == collab.hp <= 75
        rri_ok == collab.rri >= 70
    IN  <<mk_proof("consent", c.ok, [msg |-> c.msg, context_scope |-> c.scope]),
          mk_proof("apophatic", a.ok, [reasons |-> a.reasons]),
          mk_proof("externalities", ext_ok,
                   [coverage |-> collab.coverage,
                    rollback_ready |-> collab.rollback_ready]),
          mk_proof("harms_ledger", harms_ok, [penalties |-> collab.hp]),
          mk_proof("remembrance", rri_ok, [RRI |-> collab.rri])>>

(***************************************************************************)
(* apps/contemplator/shadow_twin.py                                        *)
(***************************************************************************)
\* A slip in the table: ANNIHILATION sent to NEGATION.
WILL_INVERT_Slip ==
    ("NEGATION" :> "POTENTIATION") @@
    ("POTENTIATION" :> "NEGATION") @@
    ("GENERATION" :> "ANNIHILATION") @@
    ("EXPANSION" :> "POSSESSION") @@
    ("POSSESSION" :> "EXPANSION") @@
    ("CONSUMMATION" :> "ASPIRATION") @@
    ("ASPIRATION" :> "CONSUMMATION") @@
    ("TRANSCENSION" :> "NEGATION") @@
    ("ANNIHILATION" :> "NEGATION")

WILL_INVERT ==
    ("NEGATION" :> "POTENTIATION") @@
    ("POTENTIATION" :> "NEGATION") @@
    ("GENERATION" :> "ANNIHILATION") @@
    ("EXPANSION" :> "POSSESSION") @@
    ("POSSESSION" :> "EXPANSION") @@
    ("CONSUMMATION" :> "ASPIRATION") @@
    ("ASPIRATION" :> "CONSUMMATION") @@
    ("TRANSCENSION" :> "NEGATION") @@
    ("ANNIHILATION" :> "GENERATION")

\* str.upper() on the strings a draft carries here
Upper(w) ==
    IF w = "expansion" THEN "EXPANSION"
    ELSE IF w = "transcension" THEN "TRANSCENSION"
    ELSE w

\* the budget lines _invert raises
BUDGET_KEYS ==
    {"privacy", "safety", "environmental", "reputation", "technical_debt",
     "compute"}

\* plan.setdefault("budget_lines", {}) and the loop over the six keys; the
\* lines are a function from the key to the value in hundredths
harden(plan) ==
    LET lines == GetOr(plan.budget_lines, <<>>)
        raised == [k \in DOMAIN lines \cup BUDGET_KEYS |->
                     IF k \in BUDGET_KEYS
                     THEN Max(90, IF k \in DOMAIN lines THEN lines[k] ELSE 0)
                     ELSE lines[k]]
    IN  [budget_lines |-> Some(raised),
         rollback_recipe |-> Some(GetOr(plan.rollback_recipe,
                 "rollback: kill-switch + throttle + data quarantine"))]

\* _invert: the will and the plan of the counter-draft
invert(d) ==
    LET w == Upper(IF d.will = None THEN "" ELSE Val(d.will))
    IN  [will |-> IF w \in DOMAIN WILL_INVERT THEN Some(WILL_INVERT[w]) ELSE d.will,
         plan |-> harden(d.plan)]

\* the draft object given to _invert, as the call leaves it: dict(draft.plan)
\* copies the plan one level deep, so a budget_lines dict the plan has is the
\* very dict the loop writes to; a plan without one, the rollback recipe and
\* the params are written in the copy only
draft_after_invert(d) ==
    IF d.plan.budget_lines = None THEN d
    ELSE [d EXCEPT !.plan.budget_lines = harden(d.plan).budget_lines]

\* by = {p.name: p.ok for p in awp.proofs}; by.get(name, False)
ByName(awp, name) ==
    LET hits == SelectSeq(awp.proofs, LAMBDA p : p.name = name)
    IN  IF hits = <<>> THEN FALSE ELSE hits[Len(hits)].ok

\* A slip in the hard gate: the externalities proof is not required.
hard_ok_NoExternalities(awp) ==
    ByName(awp, "consent") /\ ByName(awp, "apophatic")

hard_ok(awp) ==
    ByName(awp, "consent") /\ ByName(awp, "apophatic") /\ ByName(awp, "externalities")

\* A slip in the arbitration: a tie on risk goes to the counter.
contemplate_TieToCounter(p_awp, c_awp) ==
    LET prim_ok == hard_ok(p_awp)
        cnt_ok == hard_ok(c_awp)
        pick == IF prim_ok /\ ~cnt_ok THEN "primary"
                ELSE IF cnt_ok /\ ~prim_ok THEN "counter"
                ELSE IF p_awp.risk < c_awp.risk THEN "primary"
                ELSE "counter"
    IN  [selection |-> pick,
         rationale |-> [hard_ok |-> [primary |-> prim_ok, counter |-> cnt_ok],
                        risk |-> [primary |-> p_awp.risk, counter |-> c_awp.risk]]]

\* contemplate, given what pca.build returned for the draft and for the
\* counter-draft
contemplate(p_awp, c_awp) ==
    LET prim_ok == hard_ok(p_awp)
        cnt_ok == hard_ok(c_awp)
        pick == IF prim_ok /\ ~cnt_ok THEN "primary"
                ELSE IF cnt_ok /\ ~prim_ok THEN "counter"
                ELSE IF p_awp.risk <= c_awp.risk THEN "primary"
                ELSE "counter"
    IN  [selection |-> pick,
         rationale |-> [hard_ok |-> [primary |-> prim_ok, counter |-> cnt_ok],
                        risk |-> [primary |-> p_awp.risk, counter |-> c_awp.risk]]]

(***************************************************************************)
(* core/will/kernels.py.  A weight is in hundred-thousandths, a factor in  *)
(* thousandths, a numeric entry of the action's params in hundredths;      *)
(* params is the record of its entries, each absent (None) or present.     *)
(* _WILL is what core/will/will_engine.yaml holds when the module loads:   *)
(* operators is the operator table, a function from the configured         *)
(* operator names to entries whose kernel name is absent or present.       *)
(***************************************************************************)
K_MIN_DEFAULT == 25000
K_MAX_DEFAULT == 400000

\* _K_MIN, _K_MAX: defaults.kernel_weight_clamp of the file, or 0.25 and 4.0
K_MIN(will) == GetOr(will.clamp.min, K_MIN_DEFAULT)
K_MAX(will) == GetOr(will.clamp.max, K_MAX_DEFAULT)

clamp(will, x) == Max(K_MIN(will), Min(K_MAX(will), x))

\* base *= factor
Times(base, factor) == (base * factor) \div 1000

reversibility_bonus(action) ==
    IF GetOr(action.reversible, TRUE) THEN 900 ELSE 1050

externality_penalty(action) ==
    IF GetOr(action.externality_priced, FALSE)
    THEN 1000 - (25 * Min(100, GetOr(action.coverage, 100))) \div 10
    ELSE 1200

\* of a scale s, in hundredths
scale_penalty(s) ==
    IF s <= 100 THEN 1000 ELSE Min(1000 + (s - 100), 1500)

repair_bonus(action) ==
    IF GetOr(action.repair_plan, FALSE) THEN 900 ELSE 1000

aesthetic_bonus(action) ==
    1000 - Max(0, Min(100, GetOr(action.aesthetic_coherence, 0)))

inverted_tetrahedron(will, st, action) ==
    LET coercion == IF GetOr(action.coercion_risk, FALSE) THEN 1 ELSE 0
        humiliation == GetOr(action.humiliation_risk, 0)
        base == 110000 + 40000 * coercion + 300 * humiliation
    IN  clamp(will, Times(base, repair_bonus(action)))

spiral_sphere(will, st, action) ==
    LET base == Times(100000, reversibility_bonus(action))
    IN  clamp(will, Times(base, scale_penalty(GetOr(action.scale, 100) \div 2)))

dual_torus(will, st, action) ==
    LET loops == IF GetOr(action.feedback_loops, FALSE) THEN 1 ELSE 0
        cadence == GetOr(action.cadence_fit, 50)
    IN  clamp(will, 105000 - 15000 * loops - 100 * cadence)

golden_gnomon(will, st, action) ==
    LET scaled == Times(100000, scale_penalty(GetOr(action.scale, 100)))
        priced == Times(scaled, externality_penalty(action))
    IN  clamp(will, IF ~GetOr(action.rollback_recipe, FALSE)
                    THEN Times(priced, 1200) ELSE priced)

nested_dodecahedron(will, st, action) ==
    LET clutch == GetOr(action.clutching_index, 0)
        custody == GetOr(action.custody_clarity, 50)
    IN  clamp(will, 105000 + 300 * clutch - 200 * custody)

mobius_intersect(will, st, action) ==
    LET direction == GetOr(action.direction_coherence, 50)
        diffusion == GetOr(action.diffusion_risk, 0)
    IN  clamp(will, 105000 + 250 * diffusion - 200 * direction)

spiral_pyramid(will, st, action) ==
    LET aest == GetOr(action.aesthetic_coherence, 0)
        priced == GetOr(action.aesthetic_priced, FALSE)
        base == 105000 - 150 * aest
    IN  clamp(will, IF ~priced THEN Times(base, 1150) ELSE base)

vanishing_ellipse(will, st, action) ==
    LET apophatic_near == GetOr(action.apophatic_nearby, st.paradox_nearby)
        base == IF apophatic_near THEN 110000 ELSE 100000
        reversed == Times(base, reversibility_bonus(action))
    IN  clamp(will, Times(reversed, aesthetic_bonus(action)))

folded_voidstar(will, st, action) ==
    LET repair == GetOr(action.repair_plan, FALSE)
        theater == GetOr(action.identity_theater, 0)
        kenosis == GetOr(action.kenosis_signal, 0)
        base == 110000 + 300 * theater - 200 * kenosis
    IN  clamp(will, IF repair THEN Times(base, 900) ELSE base)

\* the keys of the dispatcher _FUNCS
FUNCS ==
    {"inverted_tetrahedron", "spiral_sphere", "dual_torus", "golden_gnomon",
     "nested_dodecahedron", "mobius_intersect", "spiral_pyramid",
     "vanishing_ellipse", "folded_voidstar"}

\* _FUNCS[kernel_name](state, params)
ApplyKernel(kernel_name, will, st, params) ==
    CASE kernel_name = "inverted_tetrahedron" -> inverted_tetrahedron(will, st, params)
      [] kernel_name = "spiral_sphere" -> spiral_sphere(will, st, params)
      [] kernel_name = "dual_torus" -> dual_torus(will, st, params)
      [] kernel_name = "golden_gnomon" -> golden_gnomon(will, st, params)
      [] kernel_name = "nested_dodecahedron" -> nested_dodecahedron(will, st, params)
      [] kernel_name = "mobius_intersect" -> mobius_intersect(will, st, params)
      [] kernel_name = "spiral_pyramid" -> spiral_pyramid(will, st, params)
      [] kernel_name = "vanishing_ellipse" -> vanishing_ellipse(will, st, params)
      [] kernel_name = "folded_voidstar" -> folded_voidstar(will, st, params)

\* the params weight_for hands to the kernel: those of an object with a
\* __dict__ and its reversible attribute stitched in, a dict as it is,
\* nothing for anything else
NoParams ==
    [reversible |-> None, externality_priced |-> None, coverage |-> None,
     scale |-> None, repair_plan |-> None, aesthetic_coherence |-> None,
     coercion_risk |-> None, humiliation_risk |-> None,
     feedback_loops |-> None, cadence_fit |-> None, rollback_recipe |-> None,
     clutching_index |-> None, custody_clarity |-> None,
     direction_coherence |-> None, diffusion_risk |-> None,
     aesthetic_priced |-> None, apophatic_nearby |-> None,
     identity_theater |-> None, kenosis_signal |-> None]

ExtractParams(action_obj) ==
    IF action_obj.kind = "object"
    THEN [action_obj.params EXCEPT !.reversible = Some(action_obj.reversible)]
    ELSE IF action_obj.kind = "dict" THEN action_obj.params
    ELSE NoParams

\* A slip in the dispatcher: an operator or a kernel that is not found
\* weighs 1.0.
weight_for_DefaultWeight(will, will_operator, st, action_obj) ==
    IF will_operator \notin DOMAIN will.operators THEN Returned(100000)
    ELSE IF will.operators[will_operator].kernel = None THEN Returned(100000)
    ELSE IF Val(will.operators[will_operator].kernel) \notin FUNCS
    THEN Returned(100000)
    ELSE Returned(clamp(will, ApplyKernel(Val(will.operators[will_operator].kernel),
                                          will, st, ExtractParams(action_obj))))

\* weight_for: _WILL["operators"][will_operator], op["kernel"] and
\* _FUNCS[kernel_name] each raise KeyError when the key is absent
weight_for(will, will_operator, st, action_obj) ==
    IF will_operator \notin DOMAIN will.operators THEN Raised("KeyError")
    ELSE IF will.operators[will_operator].kernel = None THEN Raised("KeyError")
    ELSE IF Val(will.operators[will_operator].kernel) \notin FUNCS
    THEN Raised("KeyError")
    ELSE Returned(clamp(will, ApplyKernel(Val(will.operators[will_operator].kernel),
                                          will, st, ExtractParams(action_obj))))
(***************************************************************************)
(* The inputs the calls are made with.                                     *)
(***************************************************************************)
AtomEntry(k, a) == [k |-> k, isDict |-> FALSE, atom |-> a, sub |-> <<>>]
DictEntry(k, d) == [k |-> k, isDict |-> TRUE, atom |-> "", sub |-> d]

GuardKeys == {"ground_is", "no_totalization", "deep", "safe_key"}
GuardAtoms == {"True", "False", "enforced", "being"}

\* dicts of one item, nested at most n deep, and the empty dict
RECURSIVE DictsOfDepth(_)
DictsOfDepth(n) ==
    IF n = 0
    THEN {<<>>} \cup {<<AtomEntry(k, a)>> : k \in GuardKeys, a \in GuardAtoms}
    ELSE LET S == DictsOfDepth(n - 1)
         IN  S \cup {<<DictEntry(k, d)>> : k \in GuardKeys, d \in S}

\* dicts of two items with different keys
PairDicts ==
    {d \in {<<AtomEntry(k1, a1), AtomEntry(k2, a2)>> :
                k1 \in GuardKeys, k2 \in GuardKeys \ {"deep"},
                a1 \in {"True", "being"}, a2 \in {"False", "enforced"}} :
        d[1].k # d[2].k}

ConsentCtx ==
    <<DictEntry("consent", <<AtomEntry("valid", "True"), AtomEntry("scope", "org")>>)>>

ContextSamples ==
    {<<>>,
     ConsentCtx,
     <<AtomEntry("ground_is", "being")>>,
     <<AtomEntry("no_totalization", "False")>>,
     <<DictEntry("deep", <<AtomEntry("ground_is", "being")>>)>>}

Tickets == [holder : {"user"}, scope : {"org"}, ttl_seconds : {1, 2}, issued_at : {0}]

RECURSIVE SeqsUpTo(_, _)
SeqsUpTo(S, n) ==
    IF n = 0 THEN {<<>>}
    ELSE LET R == SeqsUpTo(S, n - 1)
         IN  R \cup {Append(r, x) : r \in {q \in R : Len(q) = n - 1}, x \in S}

States(contexts, targets) ==
    [context : contexts, coverage_target : targets, stage : {"S5"},
     will_operator : {"EXP"}, consent_tickets : SeqsUpTo(Tickets, MaxTickets),
     paradox_nearby : BOOLEAN]

Configs ==
    [min_delta_E : {-50}, min_grace : {5500}, max_days : {14},
     ledger_required : {TRUE}]

\* an Action whose cost, kernel weight and coherence are the collaborators'
Candidate(E, K, G, truth) ==
    [E |-> E, K |-> K, G |-> G, predicted_truth |-> truth, params |-> <<>>,
     coverage |-> None, risk |-> None, externality_priced |-> FALSE,
     energy_penalty |-> None, grace_penalty |-> None,
     rollback_recipe |-> FALSE, repair_plan |-> FALSE]

\* an Action whose cost and coherence are those of candidate_scorer.py
ScoredCandidate(st, p, K) ==
    [p EXCEPT !.E = energy(st, p), !.G = grace(st, p, DEFAULT_GRACE_WEIGHTS),
              !.K = K]

DecideCandidates ==
    {Candidate(E, 4, G, t) : E \in {-200, -50}, G \in {5000, 6000}, t \in {"T", "F"}}

SolverCandidates ==
    {Candidate(E, K, G, "T") : E \in {-200, -100, -50}, K \in {4, 8},
                               G \in {5000, 5500, 6000}}

ScorerParams ==
    {[Candidate(0, 4, 0, "T") EXCEPT !.coverage = Some(c), !.risk = Some(r),
                                     !.externality_priced = ep,
                                     !.rollback_recipe = rb] :
        c \in {40, 70, 90}, r \in {0, 10}, ep \in BOOLEAN, rb \in BOOLEAN}

\* the operator table of will_engine.yaml: the nine operators, each with
\* the kernel its docstring names
FullTable ==
    [op \in {"NEG", "POT", "GEN", "EXP", "POS", "CON", "ASP", "TRN", "ANN"} |->
        [kernel |-> Some(CASE op = "NEG" -> "inverted_tetrahedron"
                           [] op = "POT" -> "spiral_sphere"
                           [] op = "GEN" -> "dual_torus"
                           [] op = "EXP" -> "golden_gnomon"
                           [] op = "POS" -> "nested_dodecahedron"
                           [] op = "CON" -> "mobius_intersect"
                           [] op = "ASP" -> "spiral_pyramid"
                           [] op = "TRN" -> "vanishing_ellipse"
                           [] op = "ANN" -> "folded_voidstar")]]

\* a table that lacks ANN, names a kernel that does not exist for EXP and
\* names none for TRN
BrokenTable ==
    [op \in {"NEG", "POT", "GEN", "EXP", "POS", "CON", "ASP", "TRN"} |->
        IF op = "EXP" THEN [kernel |-> Some("golden_ratio")]
        ELSE IF op = "TRN" THEN [kernel |-> None]
        ELSE FullTable[op]]

WillConfigs ==
    [operators : {FullTable, BrokenTable},
     clamp : {[min |-> None, max |-> None],
              [min |-> Some(100000), max |-> Some(120000)]}]

\* the operators weight_for is called with: the nine, and two no table has
WillOperators == DOMAIN FullTable \cup {"XXX", "neg"}

RichParams ==
    [reversible |-> Some(FALSE), externality_priced |-> Some(TRUE),
     coverage |-> Some(50), scale |-> Some(600), repair_plan |-> Some(TRUE),
     aesthetic_coherence |-> Some(50), coercion_risk |-> Some(TRUE),
     humiliation_risk |-> Some(50), feedback_loops |-> Some(TRUE),
     cadence_fit |-> Some(100), rollback_recipe |-> Some(TRUE),
     clutching_index |-> Some(100), custody_clarity |-> Some(0),
     direction_coherence |-> Some(100), diffusion_risk |-> Some(50),
     aesthetic_priced |-> Some(TRUE), apophatic_nearby |-> Some(FALSE),
     identity_theater |-> Some(50), kenosis_signal |-> Some(50)]

\* an Action object, a dict of params, or neither
KernelActions ==
    [kind : {"object", "dict", "other"}, params : {NoParams, RichParams},
     reversible : BOOLEAN]

\* an entry of a proof dict: absent, True or False
OptBool == {None, Some(TRUE), Some(FALSE)}

TruthVals == {"T", "F", "B", "N"}

\* the ProofBundles given to pgl_decide
ProofBundles ==
    [logic : [truth : {None}, apophatic_ok : OptBool],
     ethics : {"none"},
     consent : [ok : OptBool, tickets : {<<>>}],
     phenomenology : {"none"},
     repair_horizon : {None}]

\* a file on disk: missing, malformed, or parsed to the dict data
NoFile(status) == [status |-> status, data |-> None]
YamlFile(d) == [status |-> "ok", data |-> Some(d)]

PglWhens ==
    {<<>>,
     <<[k |-> "truth_val", v |-> "T"]>>,
     <<[k |-> "paradox_near", v |-> "True"]>>}

PglRules ==
    [when : PglWhens, decision : {None, Some("Answer"), Some("Refuse")},
     requirements : {{}, {"reversible_micro_move"}}]

\* core/logic/pgl_coalgebra.yaml with a transition table
PglTables ==
    {YamlFile([transitions |-> Some(t), require_reversible_micro_move |-> o]) :
        t \in SeqsUpTo(PglRules, MaxRules), o \in {None, Some(FALSE)}}

\* the two files: both there, or the first not loadable and the second
\* either way
PglFiles ==
    [pgl : PglTables, gate : {YamlFile(EmptyGate)}]
    \cup [pgl : {NoFile("missing"), NoFile("malformed"), YamlFile(EmptyPgl)},
          gate : {NoFile("missing"), YamlFile(EmptyGate)}]

\* the actions given to pgl_loader.pgl_decide
PglActions ==
    {None, Some(Candidate(-200, 4, 6000, "T")),
     Some([Candidate(-200, 4, 6000, "T") EXCEPT
              !.params = <<AtomEntry("reversible_micro_move", "True")>>])}

CleanBundle ==
    CHOOSE b \in ProofBundles :
        b.consent.ok = Some(TRUE) /\ b.logic.apophatic_ok = Some(TRUE)

\* rules conditioned on the cost and coherence flags, or requiring a repair
\* horizon
FlagWhens ==
    {<<>>,
     <<[k |-> "delta_E_ok", v |-> "True"], [k |-> "grace_ok", v |-> "True"]>>,
     <<[k |-> "delta_E_ok", v |-> "False"]>>}

FlagRules ==
    [when : FlagWhens, decision : {Some("Answer"), Some("Refuse")},
     requirements : {{}, {"repair_horizon"}}]

FlagTables ==
    {YamlFile([transitions |-> Some(t), require_reversible_micro_move |-> None]) :
        t \in SeqsUpTo(FlagRules, MaxRules)}

\* a ProofBundle as decide builds it: without a repair horizon, or with one
FlagBundles ==
    {CleanBundle, [CleanBundle EXCEPT !.repair_horizon = Some(86401)]}

\* the dicts given to build as draft.context and draft.params
PcaContexts ==
    {<<>>, ConsentCtx,
     <<AtomEntry("ground_is", "being")>>,
     <<AtomEntry("no_totalization", "False")>>}

PcaKeys == {"ground_is", "no_totalization", "completion", "no_possession", "safe_key"}

PcaParams ==
    {<<>>}
    \cup {<<AtomEntry(k, a)>> : k \in PcaKeys, a \in GuardAtoms}
    \cup {<<DictEntry("deep", <<AtomEntry(k, a)>>)>> :
             k \in {"ground_is", "no_totalization"}, a \in {"being", "False"}}

\* what the pricer (coverage, rollback_ready), the harms ledger (hp) and the
\* anamnesis engine (rri) return to build
Collabs == [coverage : {90, 100}, rollback_ready : BOOLEAN, hp : {0, 80}, rri : {70}]

\* a consent_checker.ConsentTicket
CcTicket(scope, issued_at, ttl_seconds, max_invocations, invocations) ==
    [scope |-> scope, issued_at |-> issued_at, ttl_seconds |-> ttl_seconds,
     max_invocations |-> max_invocations, invocations |-> invocations]

\* a ticket given as a dict, or (isTicket) a ConsentTicket object in the list
CcDict(isTicket, scope, valid, issued_at, ttl_seconds, invocations) ==
    [isTicket |-> isTicket, scope |-> scope, valid |-> valid,
     issued_at |-> issued_at, ttl_seconds |-> ttl_seconds,
     max_invocations |-> IF isTicket THEN Some(1) ELSE None,
     invocations |-> invocations]

\* issued_at and ttl_seconds of a dict: both absent, or issued at 0 for 1 s
CcTimings == {<<None, None>>, <<Some(0), Some(1)>>}

\* the dicts under context["consent"]
ConsentDicts ==
    {CcDict(FALSE, scope, valid, tm[1], tm[2], inv) :
        scope \in {None, Some("dyad"), Some("org"), Some("bogus")},
        valid \in {Some("True"), Some("False")},
        tm \in CcTimings, inv \in {None, Some(1)}}

\* the elements of context["consent_tickets"]
ConsentListItems ==
    {CcDict(FALSE, scope, None, tm[1], tm[2], None) :
        scope \in {None, Some("group")}, tm \in CcTimings}
    \cup {CcDict(TRUE, Some("public"), None, Some(0), Some(1), Some(0))}

CcContexts ==
    [consent : {None} \cup {Some(d) : d \in ConsentDicts},
     consent_tickets :
        {None} \cup {Some(l) : l \in SeqsUpTo(ConsentListItems, MaxTickets)}]

CcTargets == {None} \cup {Some(sc) : sc \in {"self", "group", "public", "bogus"}}

\* the ConsentTicket objects use() is called on
CcTickets ==
    {CcTicket("group", 0, ttl, mx, inv) :
        ttl \in {0, 1, 2}, mx \in 0..MaxInvocations, inv \in 0..MaxInvocations}

IdleTicket ==
    /\ ticket = CcTicket("self", 0, 1, 1, 0)
    /\ ticket0 = ticket
    /\ uses = 0

\* no concurrent caller, and no PGLConfig constructed yet
IdleThreads == threads = <<>> /\ loads = 0

IdlePgl ==
    /\ pgl_files = [pgl |-> NoFile("missing"), gate |-> NoFile("missing")]
    /\ PGL_CONFIG = None

\* a plan without budget lines and without a rollback recipe
NoPlan == [budget_lines |-> None, rollback_recipe |-> None]

\* budget lines over some of the keys privacy, compute (built in) and legal
BudgetLines ==
    UNION {[D -> {20, 95}] : D \in SUBSET {"privacy", "compute", "legal"}}

Plans ==
    [budget_lines : {None} \cup {Some(f) : f \in BudgetLines},
     rollback_recipe : {None, Some("undo")}]

IdleDraft == [will |-> None, plan |-> NoPlan]
IdleAwp == [proofs |-> <<>>, risk |-> 0]
IdleState == CHOOSE st \in States({<<>>}, {None}) :
                 st.consent_tickets = <<>> /\ ~st.paradox_nearby
IdleCfg == CHOOSE c \in Configs : TRUE

IdleTwin ==
    /\ draft0 = IdleDraft
    /\ draft = IdleDraft
    /\ primary_awp = IdleAwp
    /\ counter_awp = IdleAwp
    /\ inversions = 0

IdleGuard == g_context = <<>> /\ g_params = <<>>

IdleCore ==
    /\ state = IdleState
    /\ candidates = <<>>
    /\ cfg = IdleCfg
    /\ now = 1
    /\ ledger_up = TRUE

(***************************************************************************)
(* The calls of the decision core.                                         *)
(***************************************************************************)
coreInputs == <<state, candidates, cfg, now, ledger_up>>
guardInputs == <<g_context, g_params>>
twinInputs == <<draft0, primary_awp, counter_awp>>
pglVars == <<pgl_files, PGL_CONFIG>>
ticketVars == <<ticket, ticket0, uses>>
threadVars == <<threads, loads>>

\* what a call that only returns a value leaves as it is
rest == <<coreInputs, guardInputs, twinInputs, draft, inversions, args, pglVars,
          ticketVars, threadVars>>

Init ==
    /\ pc = "init"
    /\ IdleThreads
    /\ ret = None
    /\ args = None
    /\ state \in States(ContextSamples, {None})
    /\ candidates \in SeqsUpTo(DecideCandidates, MaxCandidates)
    /\ cfg \in Configs
    /\ now \in 1..MaxNow
    /\ ledger_up \in BOOLEAN
    /\ IdleGuard
    /\ IdleTwin
    /\ IdlePgl
    /\ IdleTicket

Decide ==
    /\ pc' = "decide"
    /\ ret' = decide(state, candidates, cfg, now, ledger_up)
    /\ UNCHANGED rest

CallCheckConsent ==
    /\ pc' = "check_consent"
    /\ ret' = check_consent(state, now)
    /\ UNCHANGED rest

CallMinimalCleanMove ==
    /\ pc' = "minimal_clean_move"
    /\ ret' = minimal_clean_move(state, candidates, cfg)
    /\ UNCHANGED rest

Next == Decide \/ CallCheckConsent \/ CallMinimalCleanMove

Spec == Init /\ [][Next]_vars

\* the paradox gate alone
InitGate ==
    /\ pc = "init"
    /\ IdleThreads
    /\ ret = None
    /\ state \in {st \in States({<<>>}, {None}) : st.consent_tickets = <<>>}
    /\ candidates = <<Candidate(-200, 4, 6000, "T")>>
    /\ args \in [action : {None, Some(1)}, proofs : ProofBundles, truth : TruthVals]
    /\ cfg = IdleCfg
    /\ now = 1
    /\ ledger_up = TRUE
    /\ IdleGuard
    /\ IdleTwin
    /\ IdlePgl
    /\ IdleTicket

\* decision_core.pgl_decide called on its own
CallPglDecide ==
    /\ pc' = "pgl_decide"
    /\ ret' = pgl_decide(state, args.action, args.proofs, args.truth)
    /\ UNCHANGED rest

NextGate == CallPglDecide

SpecGate == InitGate /\ [][NextGate]_vars

\* the table-driven gate of pgl_loader.py; _PGL_CONFIG is None when the
\* module is imported
InitPgl ==
    /\ pc = "init"
    /\ IdleThreads
    /\ ret = None
    /\ state \in {st \in States({<<>>}, {None}) : st.consent_tickets = <<>>}
    /\ candidates = <<>>
    /\ cfg = IdleCfg
    /\ now = 1
    /\ ledger_up = TRUE
    /\ args \in [action : PglActions, proofs : {CleanBundle}, truth : {"T", "F"}]
    /\ pgl_files \in PglFiles
    /\ PGL_CONFIG = None
    /\ IdleGuard
    /\ IdleTwin
    /\ IdleTicket

\* pgl_loader.pgl_decide: get_pgl_config() sets the singleton when it is None
CallPglLoaderDecide ==
    LET config == get_pgl_config(PGL_CONFIG, pgl_files)
    IN  /\ pc' = "pgl_loader.pgl_decide"
        /\ PGL_CONFIG' = Some(config)
        /\ ret' = Returned(pgl_loader_pgl_decide(config, state, args.action,
                                                 args.proofs, args.truth))
        /\ UNCHANGED <<coreInputs, guardInputs, twinInputs, draft, inversions,
                       args, pgl_files, ticketVars, threadVars>>

NextPgl == CallPglLoaderDecide

SpecPgl == InitPgl /\ [][NextPgl]_vars

\* the kernel dispatcher alone; _WILL is read when the module is imported
InitKernel ==
    /\ pc = "init"
    /\ IdleThreads
    /\ ret = None
    /\ state \in {st \in States({<<>>}, {None}) : st.consent_tickets = <<>>}
    /\ candidates = <<>>
    /\ cfg = IdleCfg
    /\ now = 1
    /\ ledger_up = TRUE
    /\ args \in [will : WillConfigs, will_operator : WillOperators,
                 action : KernelActions]
    /\ IdleGuard
    /\ IdleTwin
    /\ IdlePgl
    /\ IdleTicket

CallWeightFor ==
    /\ pc' = "weight_for"
    /\ ret' = weight_for(args.will, args.will_operator, state, args.action)
    /\ UNCHANGED rest

NextKernel == CallWeightFor

SpecKernel == InitKernel /\ [][NextKernel]_vars

\* the table-driven gate on rules about the solver's outcome and the repair
\* horizon
InitPglFlags ==
    /\ pc = "init"
    /\ IdleThreads
    /\ ret = None
    /\ state \in {st \in States({<<>>}, {None}) : st.consent_tickets = <<>>}
    /\ candidates = <<>>
    /\ cfg = IdleCfg
    /\ now = 1
    /\ ledger_up = TRUE
    /\ args \in [action : {None, Some(Candidate(-200, 4, 6000, "T"))},
                 proofs : FlagBundles, truth : {"T", "F"}]
    /\ pgl_files \in [pgl : FlagTables, gate : {YamlFile(EmptyGate)}]
    /\ PGL_CONFIG = None
    /\ IdleGuard
    /\ IdleTwin
    /\ IdleTicket

NextPglFlags == CallPglLoaderDecide

SpecPglFlags == InitPglFlags /\ [][NextPglFlags]_vars

\* the three rails energy looks at
RAILS == {"consent", "apophatic", "coverage"}

\* whether the candidate passes the rail, as energy computes it
PassesRail(rail, st, a) ==
    CASE rail = "consent" -> scorer_consent_check(st)
      [] rail = "apophatic" -> scorer_apophatic_check(a)
      [] rail = "coverage" -> ~(GetOr(a.coverage, 0) < 50)

\* the same state and candidate but for what makes that one rail fail: no
\* consent in the context, a forbidden key in the params, a coverage of 0.4
FailingTwin(rail, st, a) ==
    [st |-> IF rail = "consent" THEN [st EXCEPT !.context = <<>>] ELSE st,
     a |-> IF rail = "apophatic"
           THEN [a EXCEPT !.params = <<AtomEntry("ground_is", "being")>>]
           ELSE IF rail = "coverage" THEN [a EXCEPT !.coverage = Some(40)]
           ELSE a]

\* candidate_scorer.energy on a candidate that passes a rail and on its twin
\* that fails it
InitEnergy ==
    /\ pc = "init"
    /\ IdleThreads
    /\ ret = None
    /\ state \in {st \in States({<<>>, ConsentCtx}, {None}) : st.consent_tickets = <<>>}
    /\ candidates \in {<<p>> : p \in ScorerParams}
    /\ args \in [rail : RAILS]
    /\ PassesRail(args.rail, state, candidates[1])
    /\ cfg = IdleCfg
    /\ now = 1
    /\ ledger_up = TRUE
    /\ IdleGuard
    /\ IdleTwin
    /\ IdlePgl
    /\ IdleTicket

CallEnergyTwins ==
    LET twin == FailingTwin(args.rail, state, candidates[1])
    IN  /\ pc' = "energy(twins)"
        /\ ret' = [passing |-> energy(state, candidates[1]),
                   failing |-> energy(twin.st, twin.a)]
        /\ UNCHANGED rest

NextEnergy == CallEnergyTwins

SpecEnergy == InitEnergy /\ [][NextEnergy]_vars

Threads == 1..MaxThreads

\* a thread about to make its call
Calling == [pc |-> "call", local |-> None, result |-> None]

\* get_pgl_config called by several threads.  Nothing in the function holds
\* a lock: a thread can be suspended between the test of _PGL_CONFIG, the
\* construction (which reads the two files), the assignment and the return.
InitLoad ==
    /\ pc = "init"
    /\ ret = None
    /\ args = None
    /\ threads = [t \in Threads |-> Calling]
    /\ loads = 0
    /\ pgl_files \in [pgl : {NoFile("missing"), YamlFile(EmptyPgl)},
                      gate : {NoFile("missing"), YamlFile(EmptyGate)}]
    /\ PGL_CONFIG = None
    /\ IdleCore
    /\ IdleGuard
    /\ IdleTwin
    /\ IdleTicket

loadFrame == <<pc, ret, coreInputs, guardInputs, twinInputs, draft, inversions,
               args, pgl_files, ticketVars>>

\* if _PGL_CONFIG is None:
GetConfigTest(t) ==
    /\ threads[t].pc = "call"
    /\ threads' = [threads EXCEPT ![t].pc =
                      IF PGL_CONFIG = None THEN "construct" ELSE "return"]
    /\ UNCHANGED <<loadFrame, PGL_CONFIG, loads>>

\* PGLConfig(): __init__ loads the two files
GetConfigConstruct(t) ==
    /\ threads[t].pc = "construct"
    /\ loads' = loads + 1
    /\ threads' = [threads EXCEPT
                      ![t].pc = "assign",
                      ![t].local = Some(Instance(loads + 1, PGLConfig(pgl_files)))]
    /\ UNCHANGED <<loadFrame, PGL_CONFIG>>

\* _PGL_CONFIG = <the object constructed>
GetConfigAssign(t) ==
    /\ threads[t].pc = "assign"
    /\ PGL_CONFIG' = threads[t].local
    /\ threads' = [threads EXCEPT ![t].pc = "return"]
    /\ UNCHANGED <<loadFrame, loads>>

\* return _PGL_CONFIG
GetConfigReturn(t) ==
    /\ threads[t].pc = "return"
    /\ threads' = [threads EXCEPT ![t].pc = "done", ![t].result = PGL_CONFIG]
    /\ UNCHANGED <<loadFrame, PGL_CONFIG, loads>>

NextLoad ==
    \E t \in Threads :
        \/ GetConfigTest(t)
        \/ GetConfigConstruct(t)
        \/ GetConfigAssign(t)
        \/ GetConfigReturn(t)

SpecLoad == InitLoad /\ [][NextLoad]_vars

\* use() called on one ticket by several threads.  Nothing in use() holds a
\* lock: a thread can be suspended between the validity check, the read of
\* invocations and the write of invocations + 1.
InitRace ==
    /\ pc = "init"
    /\ ret = None
    /\ args = None
    /\ threads = [t \in Threads |-> Calling]
    /\ loads = 0
    /\ ticket \in {t \in CcTickets : t.ttl_seconds = 2}
    /\ ticket0 = ticket
    /\ uses = 0
    /\ state = IdleState
    /\ candidates = <<>>
    /\ cfg = IdleCfg
    /\ now = 1
    /\ ledger_up = TRUE
    /\ IdleGuard
    /\ IdleTwin
    /\ IdlePgl

raceFrame == <<pc, ret, coreInputs, guardInputs, twinInputs, draft, inversions,
               args, pglVars, ticket0, loads>>

\* if not self.is_valid(): return False
UseCheck(t) ==
    /\ threads[t].pc = "call"
    /\ threads' = IF ConsentTicket_is_valid(ticket, now)
                  THEN [threads EXCEPT ![t].pc = "read"]
                  ELSE [threads EXCEPT ![t].pc = "done", ![t].result = Some(FALSE)]
    /\ UNCHANGED <<raceFrame, ticket, uses>>

\* self.invocations += 1: the read of the attribute
UseRead(t) ==
    /\ threads[t].pc = "read"
    /\ threads' = [threads EXCEPT ![t].pc = "write",
                                  ![t].local = Some(ticket.invocations)]
    /\ UNCHANGED <<raceFrame, ticket, uses>>

\* self.invocations += 1: the write of the sum; return True
UseWrite(t) ==
    /\ threads[t].pc = "write"
    /\ ticket' = [ticket EXCEPT !.invocations = Val(threads[t].local) + 1]
    /\ uses' = uses + 1
    /\ threads' = [threads EXCEPT ![t].pc = "done", ![t].result = Some(TRUE)]
    /\ UNCHANGED raceFrame

NextRace == \E t \in Threads : UseCheck(t) \/ UseRead(t) \/ UseWrite(t)

SpecRace == InitRace /\ [][NextRace]_vars

\* the proofs of ProofCarryingAdvice.build and of the scorer, on a draft and
\* a candidate made of the same context and params
InitPca ==
    /\ pc = "init"
    /\ IdleThreads
    /\ ret = None
    /\ g_context \in PcaContexts
    /\ g_params \in PcaParams
    /\ args \in Collabs
    /\ IdleCore
    /\ IdleTwin
    /\ IdlePgl
    /\ IdleTicket

\* pca.build(draft, answer) with the default coverage_threshold 0.95
CallBuild ==
    /\ pc' = "build"
    /\ ret' = build_proofs([context |-> g_context, params |-> g_params], args, 95)
    /\ UNCHANGED rest

\* energy(state, action) of candidate_scorer.py, with the proofs it constructs
CallEnergy ==
    LET st == [IdleState EXCEPT !.context = g_context]
        a == [Candidate(0, 4, 0, "T") EXCEPT !.params = g_params,
                                             !.coverage = Some(args.coverage)]
    IN  /\ pc' = "energy"
        /\ ret' = energy_proofs(st, a)
        /\ UNCHANGED rest

NextPca == CallBuild \/ CallEnergy

SpecPca == InitPca /\ [][NextPca]_vars

\* ConsentChecker.check_context on a context and a target scope
InitConsent ==
    /\ pc = "init"
    /\ IdleThreads
    /\ ret = None
    /\ args \in [context : CcContexts, target_scope : CcTargets]
    /\ state = IdleState
    /\ candidates = <<>>
    /\ cfg = IdleCfg
    /\ now \in 1..MaxNow
    /\ ledger_up = TRUE
    /\ IdleGuard
    /\ IdleTwin
    /\ IdlePgl
    /\ IdleTicket

CallCheckContext ==
    /\ pc' = "check_context"
    /\ ret' = check_context(args.context, args.target_scope, now)
    /\ UNCHANGED rest

NextConsent == CallCheckContext

SpecConsent == InitConsent /\ [][NextConsent]_vars

\* a ConsentTicket over its life: use() calls as time passes
InitTicket ==
    /\ pc = "init"
    /\ IdleThreads
    /\ ret = None
    /\ args = None
    /\ ticket \in CcTickets
    /\ ticket0 = ticket
    /\ uses = 0
    /\ state = IdleState
    /\ candidates = <<>>
    /\ cfg = IdleCfg
    /\ now = 1
    /\ ledger_up = TRUE
    /\ IdleGuard
    /\ IdleTwin
    /\ IdlePgl

\* ticket.use()
Use ==
    LET r == ConsentTicket_use(ticket, now)
    IN  /\ pc' = "use"
        /\ ret' = r.ok
        /\ ticket' = r.ticket
        /\ uses' = IF r.ok THEN uses + 1 ELSE uses
        /\ UNCHANGED <<coreInputs, guardInputs, twinInputs, draft, inversions,
                       args, pglVars, ticket0, threadVars>>

\* a second passes
Tick ==
    /\ now < MaxNow
    /\ pc' = "tick"
    /\ ret' = None
    /\ now' = now + 1
    /\ UNCHANGED <<state, candidates, cfg, ledger_up, guardInputs, twinInputs,
                   draft, inversions, args, pglVars, ticketVars, threadVars>>

NextTicket == Use \/ Tick

SpecTicket == InitTicket /\ [][NextTicket]_vars

\* the solver alone, over richer candidate lists
InitSolver ==
    /\ pc = "init"
    /\ IdleThreads
    /\ ret = None
    /\ args = None
    /\ state \in {st \in States({ConsentCtx}, {None}) : st.consent_tickets = <<>>}
    /\ candidates \in SeqsUpTo(SolverCandidates, MaxSolverCandidates)
    /\ cfg \in Configs
    /\ now = 1
    /\ ledger_up = TRUE
    /\ IdleGuard
    /\ IdleTwin
    /\ IdlePgl
    /\ IdleTicket

NextSolver == CallMinimalCleanMove

SpecSolver == InitSolver /\ [][NextSolver]_vars

\* the solver over candidates scored by candidate_scorer.py
InitScorer ==
    /\ pc = "init"
    /\ IdleThreads
    /\ ret = None
    /\ args = None
    /\ state \in {st \in States({<<>>, ConsentCtx}, {Some(75), Some(100)}) :
                     st.consent_tickets = <<>> /\ ~st.paradox_nearby}
    /\ candidates \in {[i \in 1..Len(ps) |-> ScoredCandidate(state, ps[i], 4)] :
                          ps \in SeqsUpTo(ScorerParams, MaxCandidates)}
    /\ cfg \in Configs
    /\ now = 1
    /\ ledger_up = TRUE
    /\ IdleGuard
    /\ IdleTwin
    /\ IdlePgl
    /\ IdleTicket

SpecScorer == InitScorer /\ [][NextSolver]_vars

(***************************************************************************)
(* The guard alone, over nested dicts.                                     *)
(***************************************************************************)
InitGuard ==
    /\ pc = "init"
    /\ IdleThreads
    /\ ret = None
    /\ args = None
    /\ g_context \in DictsOfDepth(1)
    /\ g_params \in DictsOfDepth(MaxDepth) \cup PairDicts
    /\ IdleCore
    /\ IdleTwin
    /\ IdlePgl
    /\ IdleTicket

CallAdmissible ==
    /\ pc' = "admissible"
    /\ ret' = admissible(g_context, g_params)
    /\ UNCHANGED rest

NextGuard == CallAdmissible

SpecGuard == InitGuard /\ [][NextGuard]_vars

(***************************************************************************)
(* The shadow twin.                                                        *)
(***************************************************************************)
Proof(name, ok) == [name |-> name, ok |-> ok]

\* what pca.build returns: the five proofs in order and a risk; an awp
\* without an externalities proof stands for any other producer of awps
Awps ==
    {[proofs |-> <<Proof("consent", c), Proof("apophatic", a)>> \o x
                  \o <<Proof("harms_ledger", TRUE), Proof("remembrance", TRUE)>>,
      risk |-> r] :
        c \in BOOLEAN, a \in BOOLEAN,
        x \in {<<>>, <<Proof("externalities", TRUE)>>, <<Proof("externalities", FALSE)>>},
        r \in 0..MaxRisk}

Wills == {Some(w) : w \in DOMAIN WILL_INVERT \cup {"expansion", "UNKNOWN"}} \cup {None}

InitTwin ==
    /\ pc = "init"
    /\ IdleThreads
    /\ ret = None
    /\ args = None
    /\ draft0 \in [will : Wills, plan : {NoPlan}]
    /\ draft = draft0
    /\ inversions = 0
    /\ primary_awp \in Awps
    /\ counter_awp \in Awps
    /\ IdleCore
    /\ IdleGuard
    /\ IdlePgl
    /\ IdleTicket

Contemplate ==
    /\ pc' = "contemplate"
    /\ ret' = contemplate(primary_awp, counter_awp)
    /\ UNCHANGED rest

\* _invert applied to the draft, the counter-draft taking its place
InvertDraft ==
    /\ inversions < MaxInversions
    /\ pc' = "invert"
    /\ ret' = invert(draft)
    /\ draft' = invert(draft)
    /\ inversions' = inversions + 1
    /\ UNCHANGED <<coreInputs, guardInputs, twinInputs, args, pglVars, ticketVars,
                   threadVars>>

NextTwin == Contemplate \/ InvertDraft

SpecTwin == InitTwin /\ [][NextTwin]_vars

\* _invert alone, over drafts with a plan
InitInvert ==
    /\ pc = "init"
    /\ IdleThreads
    /\ ret = None
    /\ args = None
    /\ draft0 \in [will : {None, Some("EXPANSION")}, plan : Plans]
    /\ draft = draft0
    /\ inversions = 0
    /\ primary_awp = IdleAwp
    /\ counter_awp = IdleAwp
    /\ IdleCore
    /\ IdleGuard
    /\ IdlePgl
    /\ IdleTicket

NextInvert == InvertDraft

SpecInvert == InitInvert /\ [][NextInvert]_vars

\* contemplate(draft, answer) on a draft object the caller keeps; the two
\* awps are what pca.build returns for the draft and the counter-draft
InitContemplate ==
    /\ pc = "init"
    /\ IdleThreads
    /\ ret = None
    /\ args = None
    /\ draft0 \in [will : {None, Some("EXPANSION")}, plan : Plans]
    /\ draft = draft0
    /\ inversions = 0
    /\ primary_awp \in {a \in Awps : Len(a.proofs) = 5 /\ a.risk = 0}
    /\ counter_awp \in {a \in Awps : Len(a.proofs) = 5 /\ a.risk = 0}
    /\ IdleCore
    /\ IdleGuard
    /\ IdlePgl
    /\ IdleTicket

ContemplateDraft ==
    /\ pc' = "contemplate(draft)"
    /\ ret' = [counter_draft |-> invert(draft),
               twin |-> contemplate(primary_awp, counter_awp)]
    /\ draft' = draft_after_invert(draft)
    /\ UNCHANGED <<coreInputs, guardInputs, twinInputs, inversions, args,
                   pglVars, ticketVars, threadVars>>

NextContemplate == ContemplateDraft

SpecContemplate == InitContemplate /\ [][NextContemplate]_vars

(***************************************************************************)
(* Properties.                                                             *)
(***************************************************************************)
DecideReturned(verdict) ==
    /\ ret.raised = None
    /\ Val(ret.result).decision = verdict

ConsentInvalid == \E i \in 1..Len(state.consent_tickets) :
                      ~is_valid(state.consent_tickets[i], now)

\* C1: whenever a consent ticket of the state is invalid or the apophatic
\* check of the state's context fails, decide returns the verdict Refuse with
\* no chosen action, whatever the candidate list.
C1_HardGateShortCircuit ==
    (pc = "decide" /\ (ConsentInvalid \/ ~admissible(state.context, <<>>)))
        => (DecideReturned("Refuse") /\ Val(ret.result).chosen_action = None)

\* C2: the consent gate passes only if at least one consent ticket is present
\* and valid; in particular it fails on an empty consent_tickets list.
C2_ConsentRequiresTicket ==
    (pc = "check_consent" /\ ret.ok)
        => \E i \in 1..Len(state.consent_tickets) :
              is_valid(state.consent_tickets[i], now)

RECURSIVE KeysAnywhere(_)
KeysAnywhere(d) ==
    IF d = <<>> THEN {}
    ELSE {Head(d).k}
         \cup (IF Head(d).isDict THEN KeysAnywhere(Head(d).sub) ELSE {})
         \cup KeysAnywhere(Tail(d))

\* C3: admissible(context, params) is false whenever a forbidden key occurs at
\* any nesting depth of context or params.
C3_NestingCannotHide ==
    (pc = "admissible"
     /\ (KeysAnywhere(g_context) \cup KeysAnywhere(g_params)) \cap FORBIDDEN_KEYS # {})
        => ret = FALSE

\* C4: a candidate whose declared externality coverage is below the coverage
\* target is never the action minimal_clean_move returns.
C4_BelowCoverageNeverChosen ==
    (pc = "minimal_clean_move" /\ ret.action # None)
        => GetOr(candidates[Val(ret.action)].coverage, 0)
              >= GetOr(state.coverage_target, 95)

HardNames == {"consent", "apophatic", "externalities"}

\* the proof of that name is in the list and ok
ProofOk(awp, name) ==
    \E i \in 1..Len(awp.proofs) : awp.proofs[i].name = name /\ awp.proofs[i].ok

PassesAll(awp) == \A n \in HardNames : ProofOk(awp, n)

\* C5: if the primary advice fails at least one of the consent, apophatic and
\* externalities proofs and the counter passes all three, the selection is
\* "counter" whatever the two risks; and "primary" in the mirrored case.
C5_TwinHardGatePrecedence ==
    pc = "contemplate" =>
        /\ (~PassesAll(primary_awp) /\ PassesAll(counter_awp))
              => ret.selection = "counter"
        /\ (PassesAll(primary_awp) /\ ~PassesAll(counter_awp))
              => ret.selection = "primary"

\* C5 happens: the primary fails a gate, has the strictly lower risk, and the
\* counter is selected.
C5_Witness ==
    /\ pc = "contemplate"
    /\ ~PassesAll(primary_awp) /\ PassesAll(counter_awp)
    /\ primary_awp.risk < counter_awp.risk
    /\ ret.selection = "counter"

InTable(d) == d.will # None /\ Val(d.will) \in DOMAIN WILL_INVERT

C8_NoViableCandidate ==
    (pc = "decide" /\ ~ConsentInvalid /\ admissible(state.context, <<>>)
     /\ \A i \in 1..Len(candidates) : candidates[i].E >= cfg.min_delta_E)
        => (DecideReturned("Stand") /\ Val(ret.result).chosen_action = None)

AllClear ==
    /\ candidates # <<>>
    /\ \A i \in 1..Len(candidates) :
          candidates[i].E < cfg.min_delta_E /\ candidates[i].G >= cfg.min_grace

\* (effective cost, coherence, raw cost) of a candidate
Triple(a) == <<a.E * a.K, a.G, a.E>>

\* x is at least as good as y: lower effective cost, then higher coherence,
\* then lower raw cost
LexLeq(x, y) ==
    \/ x[1] < y[1]
    \/ x[1] = y[1] /\ x[2] > y[2]
    \/ x[1] = y[1] /\ x[2] = y[2] /\ x[3] <= y[3]

Permuted(f) == [i \in 1..Len(candidates) |-> candidates[f[i]]]

\* C9: among candidates that all clear the cost threshold and the coherence
\* floor, minimal_clean_move returns a candidate of minimal effective cost,
\* among those one of highest coherence, among those one of lowest raw cost;
\* and every reordering of the list gives a candidate of the same effective
\* cost, coherence and raw cost.
C9_LexicographicTieBreak ==
    (pc = "minimal_clean_move" /\ AllClear) =>
        /\ ret.action # None
        /\ \A i \in 1..Len(candidates) :
              LexLeq(Triple(candidates[Val(ret.action)]), Triple(candidates[i]))
        /\ \A f \in Permutations(1..Len(candidates)) :
              LET r == minimal_clean_move(state, Permuted(f), cfg)
              IN  /\ r.action # None
                  /\ Triple(Permuted(f)[Val(r.action)])
                        = Triple(candidates[Val(ret.action)])

\* C9 happens: two candidates tie on effective cost and coherence, and the one
\* of lower raw cost, which comes later in the list, is returned.
C9_Witness ==
    /\ pc = "minimal_clean_move" /\ AllClear
    /\ ret.action # None
    /\ \E i \in 1..Len(candidates) :
          /\ i < Val(ret.action)
          /\ Triple(candidates[i])[1] = Triple(candidates[Val(ret.action)])[1]
          /\ candidates[i].G = candidates[Val(ret.action)].G
          /\ candidates[i].E > candidates[Val(ret.action)].E

\* C10: an action minimal_clean_move returns has raw cost strictly below the
\* move threshold and coherence at or above the floor, and is returned with
\* that cost and coherence; otherwise the return is (None, None, None).
C10_SolverAcceptance ==
    pc = "minimal_clean_move" =>
        IF ret.action # None
        THEN LET a == candidates[Val(ret.action)]
             IN  /\ a.E < cfg.min_delta_E
                 /\ a.G >= cfg.min_grace
                 /\ ret.delta_E = Some(a.E)
                 /\ ret.G = Some(a.G)
        ELSE ret.delta_E = None /\ ret.G = None

\* C10 happens on the retry path: the candidate of least effective cost misses
\* the floor and another candidate is returned.
C10_Witness ==
    /\ pc = "minimal_clean_move"
    /\ ret.action # None
    /\ \E i \in 1..Len(candidates) :
          /\ candidates[i].E * candidates[i].K
                < candidates[Val(ret.action)].E * candidates[Val(ret.action)].K
          /\ candidates[i].G < cfg.min_grace

\* a proof entry that is recorded as failed
NotOk(entry) == entry = Some(FALSE)

\* C11: decision_core.pgl_decide, for every state and proof bundle: with no
\* accepted action the verdict is Refuse if the consent proof or the apophatic
\* proof is not ok and Stand otherwise; with an accepted action the verdict is
\* Answer when truth is T or B, Stand when truth is N, Refuse when truth is F.
C11_BaselineGate ==
    pc = "pgl_decide" =>
        ret = IF args.action = None
              THEN IF NotOk(args.proofs.consent.ok)
                      \/ NotOk(args.proofs.logic.apophatic_ok)
                   THEN "Refuse" ELSE "Stand"
              ELSE CASE args.truth \in {"T", "B"} -> "Answer"
                     [] args.truth = "N" -> "Stand"
                     [] args.truth = "F" -> "Refuse"

\* C11 happens: an accepted action with the dialetheic truth value B, near a
\* paradox, is answered.
C11_Witness ==
    /\ pc = "pgl_decide"
    /\ args.action # None /\ args.truth = "B" /\ state.paradox_nearby
    /\ ret = "Answer"

\* the transition table as configured, when the file gives one
Configured ==
    /\ pgl_files.pgl.status = "ok"
    /\ Val(pgl_files.pgl.data).transitions # None

Table == Val(Val(pgl_files.pgl.data).transitions)

SwitchedOff ==
    Val(pgl_files.pgl.data).require_reversible_micro_move = Some(FALSE)

CarriesFlag ==
    /\ args.action # None
    /\ \E i \in 1..Len(Val(args.action).params) :
          /\ Val(args.action).params[i].k = "reversible_micro_move"
          /\ Val(args.action).params[i].atom = "True"

\* every condition of the rule's `when` holds of the call
WhenHolds(r) ==
    \A i \in 1..Len(r.when) :
        CASE r.when[i].k = "truth_val" -> r.when[i].v = args.truth
          [] r.when[i].k = "paradox_near" ->
                (r.when[i].v = "True") = state.paradox_nearby
          [] OTHER -> TRUE

RequiresFlag(r) == "reversible_micro_move" \in r.requirements

\* rule i matches with its requirement met, the requirement being in force
\* when inForce
Wins(i, inForce) ==
    /\ WhenHolds(Table[i])
    /\ Table[i].decision # None
    /\ (RequiresFlag(Table[i]) /\ inForce) => CarriesFlag

Verdict(inForce) ==
    IF \E i \in 1..Len(Table) : Wins(i, inForce)
    THEN LET first == CHOOSE i \in 1..Len(Table) :
                          /\ Wins(i, inForce)
                          /\ \A j \in 1..(i - 1) : ~Wins(j, inForce)
         IN  Val(Table[first].decision)
    ELSE "Stand"

\* C12 as stated: the transitions are scanned in configured order; a rule
\* whose when conditions match but whose reversible_micro_move requirement is
\* not met is skipped; the verdict is that of the first rule that matches with
\* its requirements met, and Stand when no rule does.  Near a paradox a rule
\* that requires the flag is skipped for every action that does not carry it.
C12_OrderedRules ==
    (pc = "pgl_loader.pgl_decide" /\ Configured)
        => Val(ret.result) = Verdict(state.paradox_nearby)

\* C12 as amended: the same, the requirement being in force near a paradox
\* unless the configuration switches it off
\* (paradox_overrides.paradox_near.require_reversible_micro_move false).
C12_OrderedRulesUnlessSwitchedOff ==
    (pc = "pgl_loader.pgl_decide" /\ Configured)
        => Val(ret.result) = Verdict(state.paradox_nearby /\ ~SwitchedOff)

\* C12 happens: near a paradox, an action without the flag, a first rule that
\* matches and gives Answer but requires the flag: the verdict is Stand.
C12_Witness ==
    /\ pc = "pgl_loader.pgl_decide" /\ Configured /\ ~SwitchedOff
    /\ state.paradox_nearby
    /\ args.action # None /\ ~CarriesFlag
    /\ Len(Table) >= 1
    /\ WhenHolds(Table[1]) /\ RequiresFlag(Table[1])
    /\ Table[1].decision = Some("Answer")
    /\ Val(ret.result) = "Stand"

\* C13: if the ledger write fails during decide, decide still returns a fully
\* formed DecisionResult (verdict, chosen action, cost, coherence, truth value,
\* proof bundle) whose ledger_id is None.
C13_LedgerFailureDegrades ==
    (pc = "decide" /\ cfg.ledger_required /\ ~ledger_up)
        => /\ ret.raised = None
           /\ Val(ret.result).decision \in {"Answer", "Refuse", "Stand"}
           /\ Val(ret.result).ledger_id = None

\* C16: every Proof constructed by ProofCarryingAdvice.build or by the
\* per-candidate scoring code carries token = hash of its own (name, ok,
\* details) triple.
C16_ProofTokenIntegrity ==
    pc \in {"build", "energy"} =>
        \A i \in 1..Len(ret) :
            ret[i].token = blake([name |-> ret[i].name, ok |-> ret[i].ok,
                                  details |-> ret[i].details])

\* C18: the apophatic proof of build is ok exactly when
\* apophatic_guard.admissible(draft.context, draft.params) is true.
C18_ApophaticProofAgreesWithGuard ==
    pc = "build" =>
        \A i \in 1..Len(ret) :
            ret[i].name = "apophatic"
                => (ret[i].ok <=> admissible(g_context, g_params))

\* the place of a scope name in self < dyad < group < org < public; an
\* unknown name has none
Rank(sc) ==
    CASE sc = "self" -> 0 [] sc = "dyad" -> 1 [] sc = "group" -> 2
      [] sc = "org" -> 3 [] sc = "public" -> 4 [] OTHER -> -1

Extracted == extract_from_context(args.context, now)

StillValid(t) ==
    now <= t.issued_at + t.ttl_seconds /\ t.invocations < t.max_invocations

\* the ticket's scope is known, and at the level of the target or broader
Covers(t, target) ==
    Rank(t.scope) >= 0 /\ Rank(target) >= 0 /\ Rank(t.scope) >= Rank(target)

\* C14: check_context(context, target_scope) returns true only if some
\* extracted ticket is valid and its scope is at the same level as, or
\* broader than, target_scope; no ticket is accepted for a target broader
\* than its own scope, and an unknown scope name is never accepted.
C14_ScopeDeescalationOnly ==
    (pc = "check_context" /\ args.target_scope # None /\ ret = TRUE)
        => \E i \in 1..Len(Extracted) :
              /\ StillValid(Extracted[i])
              /\ Covers(Extracted[i], Val(args.target_scope))

\* C14 happens: the context is accepted for target group, and among its
\* extracted tickets are a valid one of scope org and one of unknown scope or
\* expired.
C14_Witness ==
    /\ pc = "check_context" /\ args.target_scope = Some("group") /\ ret = TRUE
    /\ \E i \in 1..Len(Extracted) :
          StillValid(Extracted[i]) /\ Extracted[i].scope = "org"
    /\ \E i \in 1..Len(Extracted) :
          ~StillValid(Extracted[i]) \/ Rank(Extracted[i].scope) < 0

\* a use() call is made in this step
UseStep == pc' = "use"

\* C15: for a ConsentTicket that starts with invocations <= max_invocations,
\* the successful use() calls plus the initial count never exceed
\* max_invocations; use() succeeds, adding exactly one to invocations, only
\* while now <= issued_at + ttl_seconds and invocations < max_invocations; a
\* failed use() returns False and leaves every field of the ticket unchanged.
C15_TicketLifecycle ==
    /\ [](ticket0.invocations <= ticket0.max_invocations
            => uses + ticket0.invocations <= ticket.max_invocations)
    /\ [][UseStep =>
            IF ret' = TRUE
            THEN /\ now <= ticket.issued_at + ticket.ttl_seconds
                 /\ ticket.invocations < ticket.max_invocations
                 /\ ticket' = [ticket EXCEPT !.invocations = ticket.invocations + 1]
            ELSE ret' = FALSE /\ ticket' = ticket]_vars

\* C15 happens: after two successful use() calls the ticket is used up and a
\* third call fails.
C15_Witness ==
    /\ pc = "use" /\ ret = FALSE
    /\ uses = 2
    /\ ticket0.invocations = 0
    /\ ticket.invocations = ticket.max_invocations
    /\ now <= ticket.issued_at + ticket.ttl_seconds

\* C17: after _invert, every budget line present in the counter-draft's plan
\* is at least 0.9, the lines under keys other than the six built-in names
\* included.
C17_CounterDraftFloor ==
    pc = "invert" =>
        \A k \in DOMAIN Val(ret.plan.budget_lines) :
            Val(ret.plan.budget_lines)[k] >= 90

\* the configured repair-horizon bounds, in seconds after the decision
HorizonBounds ==
    LET days == get_repair_horizon_days(get_pgl_config(PGL_CONFIG, pgl_files))
    IN  <<now + days[1] * 86400, now + days[2] * 86400>>

C20_NoSilentDefault ==
    (pc = "pgl_loader.pgl_decide"
     /\ (pgl_files.pgl.status # "ok" \/ pgl_files.gate.status # "ok"))
        => ret.raised # None

(***************************************************************************)
(* C21: weight_for ends in a lookup failure (KeyError) for every operator  *)
(* that is not in the configured operator table and for every operator     *)
(* whose configured kernel name is not one of the nine kernels; it returns *)
(* no weight in those cases.                                               *)
(***************************************************************************)
Unconfigured(will, op) == op \notin DOMAIN will.operators

UnknownKernel(will, op) ==
    /\ op \in DOMAIN will.operators
    /\ will.operators[op].kernel # None
    /\ Val(will.operators[op].kernel) \notin FUNCS

C21_UnknownOperatorFatal ==
    (/\ pc = "weight_for"
     /\ \/ Unconfigured(args.will, args.will_operator)
        \/ UnknownKernel(args.will, args.will_operator))
    => ret = Raised("KeyError")

C21_Witness ==
    /\ pc = "weight_for"
    /\ UnknownKernel(args.will, args.will_operator)
    /\ args.action.kind = "dict"
    /\ ret.raised # None
(***************************************************************************)
(* C22: the coherence floor minimal_clean_move enforces is the floor of    *)
(* the state's paradox zone: an action it returns for a paradox-nearby     *)
(* state has coherence at or above the paradox-near floor (and for any     *)
(* other state, at or above the normal floor).                             *)
(***************************************************************************)
ZoneFloor(st) == get_grace_floor(PGLConfig(pgl_files), st.paradox_nearby, FALSE)

C22_ZoneDependentFloor ==
    (pc = "minimal_clean_move" /\ ret.action # None)
    => Val(ret.G) >= ZoneFloor(state)
(***************************************************************************)
(* C23: the cost reported for a chosen action is its effective cost, the   *)
(* raw cost multiplied by the kernel weight, on the direct and on the      *)
(* retry path of the solver.  decide copies the solver's delta_E into the  *)
(* DecisionResult as it is.  E is in thousandths and K in quarters, so     *)
(* four times the effective cost is E * K.                                 *)
(***************************************************************************)
C23_ReportedCostIsEffective ==
    (pc = "minimal_clean_move" /\ ret.action # None)
    => 4 * Val(ret.delta_E)
          = energy_E(state, candidates[Val(ret.action)])
              * kernel_weight(state, candidates[Val(ret.action)])
(***************************************************************************)
(* C24: for an action the solver accepts (raw cost below the move          *)
(* threshold, coherence at or above the floor), delta_E_ok and grace_ok    *)
(* are both true in the table-driven pgl_decide: a first rule conditioned  *)
(* on delta_E_ok = true and grace_ok = true, without requirements, matches *)
(* and gives its verdict.                                                  *)
(***************************************************************************)
SolverAccepts(action) ==
    /\ action # None
    /\ minimal_clean_move(state, <<Val(action)>>, cfg).action # None

CostAndCoherenceRule(r) ==
    /\ r.when = <<[k |-> "delta_E_ok", v |-> "True"],
                  [k |-> "grace_ok", v |-> "True"]>>
    /\ r.requirements = {}
    /\ r.decision # None

C24_FlagsReflectSolver ==
    (/\ pc = "pgl_loader.pgl_decide" /\ Configured
     /\ SolverAccepts(args.action)
     /\ Len(Table) >= 1 /\ CostAndCoherenceRule(Table[1]))
    => Val(ret.result) = Val(Table[1].decision)

(***************************************************************************)
(* C25: a rule that lists the requirement repair_horizon is skipped        *)
(* whenever the proof bundle carries no repair horizon (repair_horizon is  *)
(* None): a table whose rules all list it gives the default Stand.         *)
(***************************************************************************)
C25_RepairHorizonRequired ==
    (/\ pc = "pgl_loader.pgl_decide" /\ Configured
     /\ args.proofs.repair_horizon = None
     /\ \A i \in 1..Len(Table) : "repair_horizon" \in Table[i].requirements)
    => Val(ret.result) = "Stand"
(***************************************************************************)
(* C26: after contemplate(draft, answer) returns, the draft given holds    *)
(* the values it held before the call (its plan with every budget line and *)
(* the rollback recipe, its will operator); only the counter-draft carries *)
(* the inverted operator and the raised budget lines.                      *)
(***************************************************************************)
C26_ContemplateLeavesInput ==
    pc = "contemplate(draft)" => draft = draft0
(***************************************************************************)
(* C27: of two candidates that are identical except that one fails a rail  *)
(* (consent invalid, apophatic violation, or coverage below 0.5), the raw  *)
(* cost energy gives the failing one is not lower (not more favourable)    *)
(* than the cost of the passing one.                                       *)
(***************************************************************************)
C27_FailingRailNotCheaper ==
    pc = "energy(twins)" => ret.failing >= ret.passing
(***************************************************************************)
(* C28: when several threads make their first call to get_pgl_config       *)
(* concurrently, a PGLConfig is constructed (and the files read) exactly   *)
(* once, and every caller observes the same PGLConfig object.              *)
(***************************************************************************)
C28_ConfigLoadedOnce ==
    /\ loads <= 1
    /\ \A t \in DOMAIN threads, u \in DOMAIN threads :
          (threads[t].pc = "done" /\ threads[u].pc = "done")
              => threads[t].result = threads[u].result
(***************************************************************************)
(* C29: minimal_clean_move returns no action only when no candidate has    *)
(* both raw cost strictly below the move threshold and coherence at or     *)
(* above the floor; whenever at least one candidate satisfies both         *)
(* thresholds, some action is returned.                                    *)
(***************************************************************************)
MeetsBoth(a) ==
    /\ energy_E(state, a) < cfg.min_delta_E
    /\ grace_G(state, a) >= cfg.min_grace

C29_SolverComplete ==
    (/\ pc = "minimal_clean_move"
     /\ \E i \in 1..Len(candidates) : MeetsBoth(candidates[i]))
    => ret.action # None
(***************************************************************************)
(* C30: when threads call use() on the same ConsentTicket that has exactly *)
(* one invocation remaining, at most one call returns True and invocations *)
(* never exceeds max_invocations, in any interleaving of the validity      *)
(* check and the increment.                                                *)
(***************************************************************************)
OneRemaining == ticket0.max_invocations - ticket0.invocations = 1

C30_UseAtomic ==
    OneRemaining
    => /\ Cardinality({t \in DOMAIN threads : threads[t].result = Some(TRUE)}) <= 1
       /\ ticket.invocations <= ticket.max_invocations

====
